---- MODULE Spec2Model ----
(***************************************************************************)
(* Vanilla Monte Carlo Tree Search (src/src/mcts_vanilla.py).              *)
(*                                                                         *)
(* The tree is an arena: nodes is a sequence of MCTSNode records, a node   *)
(* is its index, node 1 is the root and None (0) is the absent parent.     *)
(* think is one sequential process; pc is its position.                    *)
(*                                                                         *)
(* The game collaborator (Board) is a family of layered games: a state is  *)
(* the sequence of actions played so far, a state is ended once MaxDepth   *)
(* actions have been played, players alternate, and the winner of an ended *)
(* state is decided by board.points at the last action played.             *)
(***************************************************************************)
EXTENDS Integers, Sequences, FiniteSets, TLC

\* ---- bounds of the model ----
NumActions == 2
MaxDepth == 2
MaxIter == 13
Budget50 == 50

\* ---- program constants ----
explore_faction == 2
None == 0
Infinity == 1000000000

VARIABLES
    board,          \* the game setup: [actions, points]
    current_state,  \* think's argument
    num_nodes,      \* the iteration budget (module global)
    bot_identity,   \* think: line 136
    nodes,          \* the arena of MCTSNode objects; root_node is index 1
    iter,           \* number of completed passes of think's for loop
    pc,             \* position of think
    node,           \* traverse_nodes' local node
    state,          \* the working game state of the iteration
    leaf_node,      \* think: result of traverse_nodes
    expand_node,    \* think: result of expand_leaf
    won,            \* think: result of is_win
    best_action     \* think: result of get_best_action

vars == <<board, current_state, num_nodes, bot_identity, nodes, iter, pc,
          node, state, leaf_node, expand_node, won, best_action>>

root_node == 1

\* ------------------------------------------------------------------------
\* The game collaborator (Board)
\* ------------------------------------------------------------------------

RECURSIVE SeqsUpTo(_, _)
SeqsUpTo(k, n) ==
    IF n = 0 THEN {<<>>}
    ELSE LET shorter == SeqsUpTo(k, n - 1)
         IN  shorter \cup {Append(s, a) : s \in {t \in shorter : Len(t) = n - 1}, a \in 1..k}

Boards ==
    UNION {[actions : {k}, points : [1..k -> 0..2]] : k \in 1..NumActions}

States(b) == SeqsUpTo(b.actions, MaxDepth)

is_ended(s) == Len(s) >= MaxDepth

legal_actions(s) ==
    IF is_ended(s) THEN <<>> ELSE [i \in 1..board.actions |-> i]

next_state(s, a) == Append(s, a)

current_player(s) == 1 + (Len(s) % 2)

\* <<>> stands for the None returned on a state that is not ended
points_values(s) ==
    IF ~is_ended(s) THEN <<>>
    ELSE LET winner == board.points[s[Len(s)]]
         IN  [p \in 1..2 |-> IF winner = 0 THEN 0
                             ELSE IF winner = p THEN 1 ELSE -1]

\* ------------------------------------------------------------------------
\* MCTSNode
\* ------------------------------------------------------------------------

MCTSNode(parent, parent_action, action_list) ==
    [parent |-> parent, parent_action |-> parent_action,
     child_nodes |-> <<>>, untried_actions |-> action_list,
     wins |-> 0, visits |-> 0]

\* ------------------------------------------------------------------------
\* math.log and math.sqrt in fixed point
\* ------------------------------------------------------------------------

\* round(ln(p) * 10^8) for p = 1..52
ln_table ==
    <<0, 69314718, 109861229, 138629436, 160943791, 179175947, 194591015,
      207944154, 219722458, 230258509, 239789527, 248490665, 256494936,
      263905733, 270805020, 277258872, 283321334, 289037176, 294443898,
      299573227, 304452244, 309104245, 313549422, 317805383, 321887582,
      325809654, 329583687, 333220451, 336729583, 340119738, 343398720,
      346573590, 349650756, 352636052, 355534806, 358351894, 361091791,
      363758616, 366356165, 368887945, 371357207, 373766962, 376120012,
      378418963, 380666249, 382864140, 385014760, 387120101, 389182030,
      391202301, 393182563, 395124372>>

RECURSIVE isqrt_between(_, _, _)
isqrt_between(n, lo, hi) ==
    IF lo >= hi THEN lo
    ELSE LET mid == (lo + hi + 1) \div 2
         IN  IF mid * mid <= n THEN isqrt_between(n, mid, hi)
             ELSE isqrt_between(n, lo, mid - 1)

\* floor of the square root; n is below 2^31, its root below 46341
sqrt(n) == isqrt_between(n, 0, 46340)

\* ------------------------------------------------------------------------
\* ucb  (score in units of 1/10000)
\* ------------------------------------------------------------------------

\* math.log(0) raises ValueError
ucb_raises(ns, n) ==
    /\ ns[n].visits # 0
    /\ ns[ns[n].parent].visits = 0

\* mutant: an unvisited node scores 0 instead of infinity
ucb_unvisited_zero(ns, n, is_opponent) ==
    IF ns[n].visits = 0 THEN 0
    ELSE LET exploitation == (ns[n].wins * 10000) \div ns[n].visits
             exploration  == explore_faction
                               * sqrt(ln_table[ns[ns[n].parent].visits] \div ns[n].visits)
         IN  exploitation + (IF is_opponent THEN -exploration ELSE exploration)

\* mutant: the exploration term is added whoever made the move
ucb_always_adds(ns, n, is_opponent) ==
    IF ns[n].visits = 0 THEN Infinity
    ELSE LET exploitation == (ns[n].wins * 10000) \div ns[n].visits
             exploration  == explore_faction
                               * sqrt(ln_table[ns[ns[n].parent].visits] \div ns[n].visits)
         IN  exploitation + exploration

ucb(ns, n, is_opponent) ==
    IF ns[n].visits = 0 THEN Infinity
    ELSE LET exploitation == (ns[n].wins * 10000) \div ns[n].visits
             exploration  == explore_faction
                               * sqrt(ln_table[ns[ns[n].parent].visits] \div ns[n].visits)
         IN  exploitation + (IF is_opponent THEN -exploration ELSE exploration)

\* Python's max(): the first element whose key is maximal
RECURSIVE max_from(_, _, _)
max_from(keys, i, best) ==
    IF i > Len(keys) THEN best
    ELSE max_from(keys, i + 1, IF keys[i] > keys[best] THEN i ELSE best)

max_index(keys) == max_from(keys, 2, 1)

\* ------------------------------------------------------------------------
\* traverse_nodes
\* ------------------------------------------------------------------------

\* mutant: the `not` before node.untried_actions is missing
traverse_continues_missing_not(ns, n, s) ==
    /\ ns[n].child_nodes # <<>>
    /\ ns[n].untried_actions # <<>>
    /\ ~is_ended(s)

traverse_continues(ns, n, s) ==
    /\ ns[n].child_nodes # <<>>
    /\ ns[n].untried_actions = <<>>
    /\ ~is_ended(s)

best_node(ns, n, is_opponent) ==
    LET children == ns[n].child_nodes
        keys == [i \in 1..Len(children) |-> ucb(ns, children[i].node, is_opponent)]
    IN  children[max_index(keys)].node

\* ------------------------------------------------------------------------
\* expand_leaf: the tree, the node returned and the state returned
\* ------------------------------------------------------------------------

\* mutant: the action is read from untried_actions but not popped
expand_leaf_no_pop(ns, n, s) ==
    IF Len(ns[n].untried_actions) > 0
    THEN LET action == Head(ns[n].untried_actions)
             s2 == next_state(s, action)
             new == Len(ns) + 1
             made == Append(ns, MCTSNode(n, action, legal_actions(s2)))
         IN  [nodes |-> [made EXCEPT ![n].child_nodes =
                            Append(@, [action |-> action, node |-> new])],
              node |-> n,
              state |-> s2]
    ELSE [nodes |-> ns, node |-> n, state |-> s]

\* mutant: the node is counted as visited when there is nothing to expand
expand_leaf_counts_visit(ns, n, s) ==
    IF Len(ns[n].untried_actions) > 0
    THEN LET action == Head(ns[n].untried_actions)
             s2 == next_state(s, action)
             new == Len(ns) + 1
             popped == [ns EXCEPT ![n].untried_actions = Tail(@)]
             made == Append(popped, MCTSNode(n, action, legal_actions(s2)))
         IN  [nodes |-> [made EXCEPT ![n].child_nodes =
                            Append(@, [action |-> action, node |-> new])],
              node |-> n,
              state |-> s2]
    ELSE [nodes |-> [ns EXCEPT ![n].visits = @ + 1], node |-> n, state |-> s]

expand_leaf(ns, n, s) ==
    IF Len(ns[n].untried_actions) > 0
    THEN LET action == Head(ns[n].untried_actions)
             s2 == next_state(s, action)
             new == Len(ns) + 1
             popped == [ns EXCEPT ![n].untried_actions = Tail(@)]
             made == Append(popped, MCTSNode(n, action, legal_actions(s2)))
         IN  [nodes |-> [made EXCEPT ![n].child_nodes =
                            Append(@, [action |-> action, node |-> new])],
              node |-> n,
              state |-> s2]
    ELSE [nodes |-> ns, node |-> n, state |-> s]

\* ------------------------------------------------------------------------
\* rollout
\* ------------------------------------------------------------------------

\* mutant: the loop condition is inverted
rollout_continues_inverted(s) == is_ended(s)

rollout_continues(s) == ~is_ended(s)

\* ------------------------------------------------------------------------
\* backpropagate
\* ------------------------------------------------------------------------

\* mutant: the walk stops at the node it was given
backpropagate_no_parent(ns, n, w) ==
    [ns EXCEPT ![n].wins = IF w THEN @ + 1 ELSE @,
               ![n].visits = @ + 1]

\* mutant: visits is counted only for a playout that was not won
RECURSIVE backpropagate_visits_else(_, _, _)
backpropagate_visits_else(ns, n, w) ==
    LET counted == [ns EXCEPT ![n].wins = IF w THEN @ + 1 ELSE @,
                              ![n].visits = IF w THEN @ ELSE @ + 1]
    IN  IF ns[n].parent # None
        THEN backpropagate_visits_else(counted, ns[n].parent, w)
        ELSE counted

\* mutant: won is flipped at every ply on the way up
RECURSIVE backpropagate_flipped(_, _, _)
backpropagate_flipped(ns, n, w) ==
    LET counted == [ns EXCEPT ![n].wins = IF w THEN @ + 1 ELSE @,
                              ![n].visits = @ + 1]
    IN  IF ns[n].parent # None
        THEN backpropagate_flipped(counted, ns[n].parent, ~w)
        ELSE counted

RECURSIVE backpropagate(_, _, _)
backpropagate(ns, n, w) ==
    LET counted == [ns EXCEPT ![n].wins = IF w THEN @ + 1 ELSE @,
                              ![n].visits = @ + 1]
    IN  IF ns[n].parent # None
        THEN backpropagate(counted, ns[n].parent, w)
        ELSE counted

\* ------------------------------------------------------------------------
\* get_best_action
\* ------------------------------------------------------------------------

valid_child_nodes(ns, r) ==
    SelectSeq(ns[r].child_nodes, LAMBDA x : ns[x.node].visits > 0)

\* a filter object defines neither __bool__ nor __len__: it is always truthy
filter_is_falsy(it) == FALSE

\* mutant: the comparison of max() is reversed (min)
ratio_lt(a, b) == a.wins * b.visits < b.wins * a.visits

\* mutant: a later element replaces an equal earlier one
ratio_ge(a, b) == a.wins * b.visits >= b.wins * a.visits

\* a.wins / a.visits > b.wins / b.visits
ratio_gt(a, b) == a.wins * b.visits > b.wins * a.visits

RECURSIVE max_ratio_from(_, _, _)
max_ratio_from(items, i, best) ==
    IF i > Len(items) THEN best
    ELSE max_ratio_from(items, i + 1,
                        IF ratio_gt(items[i], items[best]) THEN i ELSE best)

\* raised: max() of an empty iterator raises ValueError
get_best_action(ns, r) ==
    LET valid == valid_child_nodes(ns, r)
        stats == [i \in 1..Len(valid) |-> ns[valid[i].node]]
    IN  IF filter_is_falsy(valid) THEN [raised |-> FALSE, action |-> None]
        ELSE IF valid = <<>> THEN [raised |-> TRUE, action |-> None]
        ELSE [raised |-> FALSE,
              action |-> valid[max_ratio_from(stats, 2, 1)].action]

\* ------------------------------------------------------------------------
\* is_win
\* ------------------------------------------------------------------------

is_win(s, identity_of_bot) == points_values(s)[identity_of_bot] = 1

\* ------------------------------------------------------------------------
\* think
\* ------------------------------------------------------------------------

ThinkEntry(b, cs, budget) ==
    /\ board = b
    /\ current_state = cs
    /\ num_nodes = budget
    /\ bot_identity = current_player(cs)
    /\ nodes = <<MCTSNode(None, None,
                          IF is_ended(cs) THEN <<>> ELSE [i \in 1..b.actions |-> i])>>
    /\ iter = 0
    /\ pc = "loop"
    /\ node = None
    /\ state = cs
    /\ leaf_node = None
    /\ expand_node = None
    /\ won = FALSE
    /\ best_action = None

\* the budgets num_nodes is set to: every budget up to the first iteration
\* that compares the scores of visited children of the root (each root action
\* expanded, each root child visited once, one more), and the full budget
Budgets == (0..(2 * NumActions + 1)) \cup {MaxIter}

Init ==
    \E b \in Boards : \E cs \in States(b) : \E budget \in Budgets :
        ThinkEntry(b, cs, budget)

LoopBegin ==
    /\ pc = "loop"
    /\ iter < num_nodes
    /\ state' = current_state
    /\ node' = root_node
    /\ pc' = "traverse"
    /\ UNCHANGED <<board, current_state, num_nodes, bot_identity, nodes, iter,
                   leaf_node, expand_node, won, best_action>>

TraverseStep ==
    /\ pc = "traverse"
    /\ traverse_continues(nodes, node, state)
    /\ LET is_opponent == current_player(state) # bot_identity
           children == nodes[node].child_nodes
       IN  IF \E i \in 1..Len(children) : ucb_raises(nodes, children[i].node)
           THEN /\ pc' = "ValueError"
                /\ UNCHANGED <<node, state>>
           ELSE /\ node' = best_node(nodes, node, is_opponent)
                /\ state' = next_state(state, nodes[node'].parent_action)
                /\ pc' = "traverse"
    /\ UNCHANGED <<board, current_state, num_nodes, bot_identity, nodes, iter,
                   leaf_node, expand_node, won, best_action>>

TraverseReturn ==
    /\ pc = "traverse"
    /\ ~traverse_continues(nodes, node, state)
    /\ leaf_node' = node
    /\ pc' = "expand"
    /\ UNCHANGED <<board, current_state, num_nodes, bot_identity, nodes, iter,
                   node, state, expand_node, won, best_action>>

ExpandLeaf ==
    /\ pc = "expand"
    /\ LET r == expand_leaf(nodes, leaf_node, state)
       IN  /\ nodes' = r.nodes
           /\ expand_node' = r.node
           /\ state' = r.state
    /\ pc' = "rollout"
    /\ UNCHANGED <<board, current_state, num_nodes, bot_identity, iter,
                   node, leaf_node, won, best_action>>

RolloutStep ==
    /\ pc = "rollout"
    /\ rollout_continues(state)
    /\ \E i \in 1..Len(legal_actions(state)) :
          state' = next_state(state, legal_actions(state)[i])
    /\ UNCHANGED <<board, current_state, num_nodes, bot_identity, nodes, iter, pc,
                   node, leaf_node, expand_node, won, best_action>>

RolloutReturn ==
    /\ pc = "rollout"
    /\ ~rollout_continues(state)
    /\ pc' = "is_win"
    /\ UNCHANGED <<board, current_state, num_nodes, bot_identity, nodes, iter,
                   node, state, leaf_node, expand_node, won, best_action>>

IsWin ==
    /\ pc = "is_win"
    /\ IF points_values(state) = <<>>
       THEN /\ pc' = "AssertionError"
            /\ UNCHANGED won
       ELSE /\ won' = is_win(state, bot_identity)
            /\ pc' = "backpropagate"
    /\ UNCHANGED <<board, current_state, num_nodes, bot_identity, nodes, iter,
                   node, state, leaf_node, expand_node, best_action>>

Backpropagate ==
    /\ pc = "backpropagate"
    /\ nodes' = backpropagate(nodes, expand_node, won)
    /\ iter' = iter + 1
    /\ pc' = "loop"
    /\ UNCHANGED <<board, current_state, num_nodes, bot_identity,
                   node, state, leaf_node, expand_node, won, best_action>>

GetBestAction ==
    /\ pc = "loop"
    /\ iter >= num_nodes
    /\ LET r == get_best_action(nodes, root_node)
       IN  /\ best_action' = r.action
           /\ pc' = IF r.raised THEN "ValueError" ELSE "done"
    /\ UNCHANGED <<board, current_state, num_nodes, bot_identity, nodes, iter,
                   node, state, leaf_node, expand_node, won>>

Next ==
    \/ LoopBegin
    \/ TraverseStep
    \/ TraverseReturn
    \/ ExpandLeaf
    \/ RolloutStep
    \/ RolloutReturn
    \/ IsWin
    \/ Backpropagate
    \/ GetBestAction

Spec == Init /\ [][Next]_vars

\* ------------------------------------------------------------------------
\* Properties
\* ------------------------------------------------------------------------

Nodes == 1..Len(nodes)

\* the actions under which n has a child, and its untried actions, as sets
ChildKeys(n) == {nodes[n].child_nodes[i].action : i \in 1..Len(nodes[n].child_nodes)}
Children(n) == {nodes[n].child_nodes[i].node : i \in 1..Len(nodes[n].child_nodes)}
Untried(n) == {nodes[n].untried_actions[i] : i \in 1..Len(nodes[n].untried_actions)}

\* the game state a node stands for
RECURSIVE NodeState(_)
NodeState(n) ==
    IF nodes[n].parent = None THEN current_state
    ELSE next_state(NodeState(nodes[n].parent), nodes[n].parent_action)

RECURSIVE Depth(_)
Depth(n) == IF nodes[n].parent = None THEN 0 ELSE 1 + Depth(nodes[n].parent)

Finished == pc \in {"done", "ValueError", "AssertionError"}

NoVisitedChild == \A c \in Children(root_node) : nodes[c].visits = 0

\* C1: when the node given to expand_leaf has an untried action, expand_leaf
\* returns the newly created child (not the node it was given) and the
\* child's state, so the iteration's backpropagation starts at the new child.
C1_ExpandReturnsNewChild ==
    [][(pc = "expand" /\ Len(nodes[leaf_node].untried_actions) > 0)
         => /\ Len(nodes') = Len(nodes) + 1
            /\ expand_node' = Len(nodes')
            /\ expand_node' # leaf_node
            /\ nodes'[expand_node'].parent = leaf_node
            /\ state' = next_state(state, Head(nodes[leaf_node].untried_actions))]_vars

\* C2: when no child of the root has visits > 0, get_best_action returns
\* None and think reports it; nothing is raised.
C2_NoVisitedChildGivesNone ==
    (Finished /\ NoVisitedChild) => (pc = "done" /\ best_action = None)

\* C3: after N completed iterations the root's visits equals N.
C3_RootVisitsEqualsIterations ==
    nodes[root_node].visits = iter

C3_Witness ==
    /\ pc = "loop"
    /\ iter = num_nodes
    /\ iter >= 4
    /\ expand_node # root_node

\* C4: every node of the tree has 0 <= wins <= visits.
C4_WinsWithinVisits ==
    \A n \in Nodes : 0 <= nodes[n].wins /\ nodes[n].wins <= nodes[n].visits

C4_Witness ==
    /\ \E n \in Nodes : 0 < nodes[n].wins /\ nodes[n].wins < nodes[n].visits
    /\ \E n \in Nodes : 0 < nodes[n].visits /\ nodes[n].wins = nodes[n].visits
    /\ \E n \in Nodes : 0 < nodes[n].visits /\ nodes[n].wins = 0

\* rollout and is_win read the tree and never write it: the tree they run on
\* is the one expand_leaf left, which stands unchanged when backpropagate starts
TreeAtRest == pc \notin {"rollout", "is_win"}

\* C5: for every node the keys of child_nodes and the entries of
\* untried_actions are disjoint and together are the legal actions of the
\* state the node was constructed for (stated on every tree think builds, in
\* the states before and after each call that writes the tree).
C5_ChildrenAndUntriedPartitionLegal ==
    TreeAtRest =>
        \A n \in Nodes :
            LET legal == legal_actions(NodeState(n))
                keys == ChildKeys(n)
                untried == Untried(n)
            IN  /\ keys \cap untried = {}
                /\ keys \cup untried = {legal[i] : i \in 1..Len(legal)}
                /\ Cardinality(keys) = Len(nodes[n].child_nodes)
                /\ Cardinality(untried) = Len(nodes[n].untried_actions)

C5_Witness ==
    /\ TreeAtRest
    /\ \E n \in Nodes : ChildKeys(n) # {} /\ Untried(n) # {}
    /\ \E n \in Nodes : ChildKeys(n) # {} /\ Untried(n) = {}
    /\ \E n \in Nodes : is_ended(NodeState(n)) /\ ChildKeys(n) = {} /\ Untried(n) = {}

\* the children of n with visits = 0 / visits > 0, as positions in stored order
UnvisitedAt(n) == {i \in 1..Len(nodes[n].child_nodes) :
                      nodes[nodes[n].child_nodes[i].node].visits = 0}
VisitedAt(n) == {i \in 1..Len(nodes[n].child_nodes) :
                    nodes[nodes[n].child_nodes[i].node].visits > 0}

Least(S) == CHOOSE i \in S : \A j \in S : i <= j

\* ---- rollout alone, called on any state of any board ----

InitRollout ==
    \E b \in Boards : \E s \in States(b) :
        /\ board = b
        /\ current_state = s
        /\ state = s
        /\ pc = "rollout"
        /\ num_nodes = 0
        /\ bot_identity = current_player(s)
        /\ nodes = <<MCTSNode(None, None,
                              IF is_ended(s) THEN <<>> ELSE [i \in 1..b.actions |-> i])>>
        /\ iter = 0
        /\ node = None
        /\ leaf_node = None
        /\ expand_node = None
        /\ won = FALSE
        /\ best_action = None

NextRollout ==
    \/ RolloutStep
    \/ RolloutReturn

SpecRollout == InitRollout /\ [][NextRollout]_vars /\ WF_vars(NextRollout)

\* C6: when the node traverse_nodes descends from has a child with
\* visits = 0, the child selected is the first such child in stored order,
\* for either value of the opponent flag (stated, while traverse_nodes runs,
\* for every node of the tree it runs on).
C6_UnvisitedChildSelectedFirst ==
    pc = "traverse" =>
        \A n \in Nodes :
            LET unvisited == UnvisitedAt(n)
            IN  (unvisited # {} /\ traverse_continues(nodes, n, NodeState(n)))
                    => \A is_opponent \in BOOLEAN :
                          best_node(nodes, n, is_opponent)
                              = nodes[n].child_nodes[Least(unvisited)].node

C6_Witness ==
    /\ pc = "traverse"
    /\ traverse_continues(nodes, node, state)
    /\ \E i \in VisitedAt(node) : \E j \in UnvisitedAt(node) :
          /\ i < j
          /\ nodes[nodes[node].child_nodes[i].node].wins > 0

\* C7: rollout terminates under every sequence of random choices and returns
\* a state for which is_ended is true; an input state that is already ended
\* is returned unchanged.
C7_RolloutTerminatesAtEndedState ==
    /\ (pc = "rollout") ~> (pc = "is_win" /\ is_ended(state))
    /\ [](pc = "is_win" => is_ended(state))
    /\ []((pc = "is_win" /\ is_ended(current_state)) => state = current_state)

C7_Witness ==
    /\ pc = "is_win"
    /\ is_ended(state)
    /\ Len(state) >= Len(current_state) + 2

\* ---- the single-ply game of two actions, one winning and one losing ----

InitC8 ==
    \E b \in Boards : \E cs \in States(b) :
        /\ b.actions = 2
        /\ Len(cs) = MaxDepth - 1
        /\ {b.points[1], b.points[2]} = {1, 2}
        /\ ThinkEntry(b, cs, Budget50)

NextC8 ==
    \/ LoopBegin
    \/ TraverseStep
    \/ TraverseReturn
    \/ ExpandLeaf
    \/ RolloutReturn
    \/ IsWin
    \/ Backpropagate
    \/ GetBestAction

SpecC8 == InitC8 /\ [][NextC8]_vars

WinningAction == CHOOSE a \in 1..board.actions : board.points[a] = bot_identity

\* C8: in the single-ply game with one winning and one losing action, think
\* with a budget of 50 returns the winning action, in either order of the
\* two actions.
C8_SinglePlyReturnsWinningAction ==
    (Finished \/ iter = num_nodes)
        => /\ pc \in {"loop", "done"}
           /\ get_best_action(nodes, root_node).action = WinningAction
           /\ (pc = "done" => best_action = WinningAction)

C8_Witness ==
    /\ pc = "done"
    /\ iter = Budget50
    /\ board.points[2] = bot_identity
    /\ best_action = 2

\* C9: backpropagate adds 1 to visits on the node and on every ancestor up
\* to the root, adds 1 to wins on the same nodes iff won, and leaves every
\* other node's visits and wins unchanged.
RECURSIVE PathToRoot(_)
PathToRoot(n) ==
    IF nodes[n].parent = None THEN {n} ELSE {n} \cup PathToRoot(nodes[n].parent)

C9_BackpropagateFrame ==
    [][pc = "backpropagate"
         => /\ root_node \in PathToRoot(expand_node)
            /\ Len(nodes') = Len(nodes)
            /\ \A n \in Nodes :
                  IF n \in PathToRoot(expand_node)
                  THEN /\ nodes'[n].visits = nodes[n].visits + 1
                       /\ nodes'[n].wins = nodes[n].wins + (IF won THEN 1 ELSE 0)
                  ELSE /\ nodes'[n].visits = nodes[n].visits
                       /\ nodes'[n].wins = nodes[n].wins]_vars

C9_Witness ==
    /\ pc = "loop"
    /\ iter > 0
    /\ won
    /\ Depth(expand_node) = 2
    /\ \A n \in PathToRoot(expand_node) : nodes[n].wins >= 1
    /\ Len(nodes) > 3

\* C10: when some child of the root has visits > 0, get_best_action returns
\* the action of a visited child whose wins/visits is maximal among the
\* visited children, the first stored among those tied for the maximum.
C10_BestActionIsFirstMaxRatio ==
    (VisitedAt(root_node) # {})
        => LET r == get_best_action(nodes, root_node)
               kids == nodes[root_node].child_nodes
               W(i) == nodes[kids[i].node].wins
               V(i) == nodes[kids[i].node].visits
           IN  /\ ~r.raised
               /\ \E i \in VisitedAt(root_node) :
                     /\ r.action = kids[i].action
                     /\ \A j \in VisitedAt(root_node) :
                           /\ W(j) * V(i) <= W(i) * V(j)
                           /\ (j < i) => (W(j) * V(i) < W(i) * V(j))
               /\ (pc = "done" => best_action = r.action)

C10_Witness ==
    /\ pc = "done"
    /\ \E i, j \in VisitedAt(root_node) :
          LET kids == nodes[root_node].child_nodes
          IN  /\ i < j
              /\ best_action = kids[j].action
              /\ nodes[kids[i].node].wins > 0

\* C11: is_win is called only on a state for which is_ended is true; the
\* assertion of is_win never fails during think.
C11_IsWinOnlyOnEndedState ==
    /\ pc # "AssertionError"
    /\ (pc = "is_win") => (is_ended(state) /\ points_values(state) # <<>>)

C11_Witness ==
    /\ pc = "backpropagate"
    /\ won
    /\ Len(state) >= Len(NodeState(leaf_node)) + 2

\* C12: whenever traverse_nodes evaluates ucb on the children of a node,
\* that node has visits >= 1, so math.log never raises during a traversal.
C12_UcbParentVisited ==
    /\ (pc = "traverse" /\ traverse_continues(nodes, node, state))
          => /\ nodes[node].visits >= 1
             /\ \A c \in Children(node) : ~ucb_raises(nodes, c)
    /\ (pc = "ValueError") => (iter >= num_nodes)

C12_Witness ==
    /\ pc = "traverse"
    /\ node # root_node
    /\ traverse_continues(nodes, node, state)
    /\ VisitedAt(node) # {}

IsPrefix(a, b) == Len(a) <= Len(b) /\ SubSeq(b, 1, Len(a)) = a

\* C13: a non-root node's visits counts the completed iterations whose
\* playout passed through the node, the iteration that created it included:
\* each iteration's backpropagation adds 1 to visits of exactly the non-root
\* nodes whose state the playout went through (a new child ends its first
\* iteration with visits = 1).
C13_VisitsCountPlayoutsThrough ==
    [][pc = "backpropagate"
         => \A n \in Nodes \ {root_node} :
               nodes'[n].visits =
                  nodes[n].visits + (IF IsPrefix(NodeState(n), state) THEN 1 ELSE 0)]_vars

\* C14: traverse_nodes returns a node that is the input node or one of its
\* descendants, the input state advanced by the parent_action of every node
\* on the path descended, and the node has an untried action, or has no
\* children, or the state is ended.
C14_TraverseResult ==
    /\ (pc = "traverse")
          => /\ root_node \in PathToRoot(node)
             /\ state = NodeState(node)
    /\ (pc = "expand")
          => /\ root_node \in PathToRoot(leaf_node)
             /\ state = NodeState(leaf_node)
             /\ \/ nodes[leaf_node].untried_actions # <<>>
                \/ nodes[leaf_node].child_nodes = <<>>
                \/ is_ended(state)

C14_Witness ==
    /\ pc = "expand"
    /\ Depth(leaf_node) = 2
    /\ is_ended(state)
    /\ nodes[leaf_node].visits > 0

\* C15: expand_leaf on a node whose untried_actions is empty returns the
\* same node and the same state and changes nothing in the tree.
C15_ExpandNothingUntriedIsNoOp ==
    [][(pc = "expand" /\ nodes[leaf_node].untried_actions = <<>>)
         => /\ nodes' = nodes
            /\ expand_node' = leaf_node
            /\ state' = state]_vars

C15_Witness ==
    /\ pc = "rollout"
    /\ nodes[leaf_node].untried_actions = <<>>
    /\ nodes[leaf_node].child_nodes = <<>>
    /\ leaf_node # root_node
    /\ expand_node = leaf_node
    /\ state = NodeState(leaf_node)

\* wins/visits + C*sqrt(ln(parent visits)/visits), or with the exploration
\* term subtracted, in units of 1/10000; a child never visited has no finite
\* score and ranks above every visited one
SignedScore(wins, visits, parent_visits, subtract) ==
    IF visits = 0 THEN Infinity
    ELSE LET mean  == (10000 * wins) \div visits
             bonus == explore_faction * sqrt(ln_table[parent_visits] \div visits)
         IN  IF subtract THEN mean - bonus ELSE mean + bonus

\* C16: at each step of traverse_nodes the opponent flag is true exactly
\* when the player to move at the current state is not the searching bot,
\* the children are scored with the exploration term added when the flag is
\* false and subtracted when it is true, and the child selected is the first
\* in stored order with the maximum score.
C16_SelectionBySignedScore ==
    [][(pc = "traverse" /\ traverse_continues(nodes, node, state))
         => LET kids == nodes[node].child_nodes
                opponent_to_move ==
                    current_player(NodeState(node)) # current_player(current_state)
                Score(i) == SignedScore(nodes[kids[i].node].wins,
                                        nodes[kids[i].node].visits,
                                        nodes[node].visits,
                                        opponent_to_move)
            IN  /\ pc' = "traverse"
                /\ \E i \in 1..Len(kids) :
                      /\ node' = kids[i].node
                      /\ state' = next_state(state, kids[i].action)
                      /\ \A j \in 1..Len(kids) :
                            /\ Score(j) <= Score(i)
                            /\ (j < i) => (Score(j) < Score(i))]_vars

C16_Witness ==
    /\ pc = "traverse"
    /\ node # root_node
    /\ state = NodeState(node)
    /\ LET p == nodes[node].parent
       IN  /\ current_player(NodeState(p)) # bot_identity
           /\ Len(nodes[p].child_nodes) > 1
           /\ UnvisitedAt(p) = {}
           /\ node = best_node(nodes, p, TRUE)
           /\ node # best_node(nodes, p, FALSE)

\* C17: for a current state that is not ended and a budget of at least 1,
\* after think's iterations some child of the root has visits > 0 and think
\* returns an action that is legal at the current state.
C17_ThinkReturnsLegalAction ==
    (~is_ended(current_state) /\ num_nodes >= 1)
        => /\ (pc = "loop" /\ iter = num_nodes) => ~NoVisitedChild
           /\ Finished
                => /\ pc = "done"
                   /\ \E i \in 1..Len(legal_actions(current_state)) :
                         best_action = legal_actions(current_state)[i]

RECURSIVE SumSeq(_)
SumSeq(q) == IF q = <<>> THEN 0 ELSE Head(q) + SumSeq(Tail(q))

ChildVisits(n) == SumSeq([i \in 1..Len(nodes[n].child_nodes) |->
                            nodes[nodes[n].child_nodes[i].node].visits])
ChildWins(n) == SumSeq([i \in 1..Len(nodes[n].child_nodes) |->
                          nodes[nodes[n].child_nodes[i].node].wins])

\* C18: after any number of completed iterations, the visits of a node's
\* children sum to at most the node's visits, their wins to at most the
\* node's wins, and the tree has at most one non-root node per completed
\* iteration.
C18_ChildrenSumsAndTreeSize ==
    (pc = "loop")
        => /\ \A n \in Nodes :
                 /\ ChildVisits(n) <= nodes[n].visits
                 /\ ChildWins(n) <= nodes[n].wins
           /\ Len(nodes) - 1 <= iter

C18_Witness ==
    /\ pc = "loop"
    /\ iter = num_nodes
    /\ Len(nodes) - 1 < iter
    /\ \E n \in Nodes \ {root_node} :
          /\ Len(nodes[n].child_nodes) > 1
          /\ ChildWins(n) > 0
          /\ ChildVisits(n) > ChildWins(n)

====
